---- MODULE Spec2Model ----
(***************************************************************************)
(* Model of routes/tasks.js: the express route handlers of the task API.   *)
(* The Task collection is a sequence of documents in insertion order; a    *)
(* field of a document or of a request body is an option, <<>> for         *)
(* undefined (the path is not set) and <<v>> for the value v.              *)
(***************************************************************************)
EXTENDS Integers, Sequences, FiniteSets, TLC

\* ---------------------------------------------------------------- bounds
\* Number of tasks ever created (ids handed out by the store).
MaxTasks == 2
\* Number of store operations that may be in flight at once.
MaxPending == 1

\* ------------------------------------------------------------ input sets
Users == {"u1", "u2"}
\* Team ids a /:teamId request may name; "T2" names no team.
TeamIds == {"T1", "T2"}
\* Team ids the body of POST / may name.
BodyTeamIds == {"T1"}
\* Task ids a request may name (an id not yet handed out, or deleted, names no task).
TaskIds == 1 .. MaxTasks
\* Values of the sortBy query parameter; it may also be absent.
SortBys == {"priority", "dateAdded", "title"}
Workspaces == {"personal", "team", "bogus"}

Undefined == <<>>
Some(v) == <<v>>

\* The Team collection (models/team.js): read only in this router.
teams == [T1 |-> [members |-> {"u1"}]]

\* The User collection (models/user.js): only username is read, by populate.
users == [u1 |-> [username |-> "alice"], u2 |-> [username |-> "bob"]]

\* Keys that PUT /:id destructures from req.body.
UpdateKeys == {"title", "description", "dueDate", "priority", "completed"}

\* Request bodies of the creating routes: {title, description, dueDate, priority}.
CreateBodies ==
  { [title |-> Some("a"), description |-> Some("d"), dueDate |-> Undefined,
     priority |-> Some(1)] }

\* Request bodies of PUT /:id; a key absent from the body is Undefined.
RetitleBody ==
  [title |-> Some("b"), description |-> Undefined, dueDate |-> Undefined,
   priority |-> Some(2), completed |-> Undefined]
DetailBody ==
  [title |-> Undefined, description |-> Some("e"), dueDate |-> Some("2026-01-01"),
   priority |-> Undefined, completed |-> Some(TRUE)]
UpdateBodies == {RetitleBody, DetailBody}

VARIABLES
  tasks,    \* the Task collection, in insertion order
  nextId,   \* the next id the store hands out
  now,      \* the clock that createdAt is read from
  pending   \* store operations sent by a handler and not yet executed

vars == <<tasks, nextId, now, pending>>

\* ------------------------------------------------------------- the store
Ids(s) == {s[i].id : i \in 1 .. Len(s)}

\* Task.findById(id): the document, or null.
FindById(s, id) ==
  LET at == {i \in 1 .. Len(s) : s[i].id = id}
  IN  IF at = {} THEN Undefined ELSE Some(s[CHOOSE i \in at : TRUE])

\* Task.find({}): a find that drops the filter.
FindAll(s, u) == s

\* Task.find({ user }) and Task.find({ team }): the matching documents in
\* natural (insertion) order.
FindByUser(s, u) == SelectSeq(s, LAMBDA d : d.user = u)
FindByTeam(s, t) == SelectSeq(s, LAMBDA d : d.team = Some(t))

\* Team.findById(teamId): the team, or null.
TeamFindById(t) == IF t \in DOMAIN teams THEN Some(teams[t]) ELSE Undefined

\* new Task({...}): the fields given, the schema defaults (completed: false,
\* createdAt: now) and a fresh id.
NewTask(id, createdAt, body, u, ws, team) ==
  [id |-> id, title |-> body.title, description |-> body.description,
   dueDate |-> body.dueDate, priority |-> body.priority, completed |-> Some(FALSE),
   workspace |-> ws, user |-> u, team |-> team, createdAt |-> createdAt]

\* const { title, description, dueDate, priority, completed } = req.body;
\* const taskData = { title, description, dueDate, priority, completed };
\* all five keys are own properties of taskData, undefined where the body
\* has no such key.
TaskData(body) ==
  [title |-> body.title, description |-> body.description, dueDate |-> body.dueDate,
   priority |-> body.priority, completed |-> body.completed]

\* The validation save() runs before it writes: the Task schema
\* (models/task.js) requires title.
Validate(task) == task.title # Undefined

\* Object.assign(task, taskData): every own key of taskData is assigned,
\* and assigning undefined to a path of a document unsets it.
ObjectAssign(task, taskData) ==
  [task EXCEPT !.title = taskData.title, !.description = taskData.description,
               !.dueDate = taskData.dueDate, !.priority = taskData.priority,
               !.completed = taskData.completed]

\* What task.save() sends for one path of a loaded document: nothing
\* (Undefined) when the value assigned equals the value loaded, else the
\* value to $set, or Undefined to $unset.
Diff(old, new) == IF new # old THEN Some(new) ELSE Undefined

\* The update task.save() sends for a document loaded as `loaded` and now
\* `task` in memory.
Delta(loaded, task) ==
  [title |-> Diff(loaded.title, task.title),
   description |-> Diff(loaded.description, task.description),
   dueDate |-> Diff(loaded.dueDate, task.dueDate),
   priority |-> Diff(loaded.priority, task.priority),
   completed |-> Diff(loaded.completed, task.completed)]

NoWrites ==
  [title |-> Undefined, description |-> Undefined, dueDate |-> Undefined,
   priority |-> Undefined, completed |-> Undefined]

\* updateOne({ _id: id }, delta) with upsert: a document of the written
\* paths is inserted when none has the id.
UpdateOneUpsert(s, id, delta) ==
  LET Write(d) ==
        [d EXCEPT !.title = IF delta.title # Undefined THEN delta.title[1] ELSE @,
                  !.description =
                     IF delta.description # Undefined THEN delta.description[1] ELSE @,
                  !.dueDate = IF delta.dueDate # Undefined THEN delta.dueDate[1] ELSE @,
                  !.priority = IF delta.priority # Undefined THEN delta.priority[1] ELSE @,
                  !.completed = IF delta.completed # Undefined THEN delta.completed[1] ELSE @]
  IN  IF id \in Ids(s) THEN [i \in 1 .. Len(s) |-> IF s[i].id = id THEN Write(s[i]) ELSE s[i]]
      ELSE Append(s, Write([id |-> id, title |-> Undefined, description |-> Undefined,
                            dueDate |-> Undefined, priority |-> Undefined,
                            completed |-> Undefined, workspace |-> Undefined, user |-> "",
                            team |-> Undefined, createdAt |-> 0]))

\* updateOne({ _id: id }, delta): the store writes the paths of delta to the
\* document with the id, if there is one.
UpdateOne(s, id, delta) ==
  [i \in 1 .. Len(s) |->
     IF s[i].id # id THEN s[i]
     ELSE [s[i] EXCEPT
             !.title = IF delta.title # Undefined THEN delta.title[1] ELSE @,
             !.description = IF delta.description # Undefined THEN delta.description[1] ELSE @,
             !.dueDate = IF delta.dueDate # Undefined THEN delta.dueDate[1] ELSE @,
             !.priority = IF delta.priority # Undefined THEN delta.priority[1] ELSE @,
             !.completed = IF delta.completed # Undefined THEN delta.completed[1] ELSE @]]

\* A save whose update upserts.
SaveUpsert(s, id, delta) ==
  [ok |-> TRUE, tasks |-> IF delta = NoWrites THEN s ELSE UpdateOneUpsert(s, id, delta)]

\* task.save() of a loaded document: sends nothing when no path is modified;
\* else the update, and fails when no stored document has the id.
Save(s, id, delta) ==
  IF delta = NoWrites \/ id \in Ids(s) THEN [ok |-> TRUE, tasks |-> UpdateOne(s, id, delta)]
  ELSE [ok |-> FALSE, tasks |-> s]

\* task.deleteOne(): removes the stored document with that id, if any.
DeleteOne(s, id) == SelectSeq(s, LAMBDA d : d.id # id)

\* Task.updateMany({}, { completed }): an update that drops the id filter.
UpdateMany(s, id, completed) ==
  [i \in 1 .. Len(s) |-> [s[i] EXCEPT !.completed = Some(completed)]]

\* Task.findByIdAndUpdate(id, { completed }, { new: true }): one atomic store
\* operation.
FindByIdAndUpdate(s, id, completed) ==
  [i \in 1 .. Len(s) |->
     IF s[i].id = id THEN [s[i] EXCEPT !.completed = Some(completed)] ELSE s[i]]

\* ------------------------------------------------------------- responses
\* What a handler does: the collection it leaves and the response it sends.
Result(s, status, msg, body) == [tasks |-> s, status |-> status, msg |-> msg, body |-> body]


\* res.json(task): the user path is the stored reference unless populated.
ToJSON(d) == [d EXCEPT !.user = [id |-> d.user, username |-> Undefined]]

\* .populate('user', 'username')
Populate(d) == [d EXCEPT !.user = [id |-> d.user, username |-> Some(users[d.user].username)]]

MapSeq(s, F(_)) == [i \in 1 .. Len(s) |-> F(s[i])]

\* await task.save(); res.json(task) of a new document; a rejected save is
\* caught and answered 500.
SaveNew(s, task) ==
  IF Validate(task) THEN Result(Append(s, task), 200, "", <<ToJSON(task)>>)
  ELSE Result(s, 500, "Server Error", <<>>)

\* ----------------------------------------------------------------- sort
Perms(n) == {f \in [1 .. n -> 1 .. n] : \A i, j \in 1 .. n : i # j => f[i] # f[j]}

\* The store's comparison key of a priority: a missing value sorts below
\* every number.
PriorityKey(d) == IF d.priority = Undefined THEN 0 ELSE d.priority[1]
CreatedAtKey(d) == d.createdAt

\* .sort({ key: 1 }): ascending order.
SortAsc(s, Key(_)) ==
  { [i \in 1 .. Len(s) |-> s[f[i]]] :
      f \in {g \in Perms(Len(s)) :
               \A i \in 1 .. Len(s) - 1 : Key(s[g[i]]) <= Key(s[g[i + 1]])} }

\* .sort({ key: -1 }): the documents in descending key order; the order of
\* documents with equal keys is not specified.
SortDesc(s, Key(_)) ==
  { [i \in 1 .. Len(s) |-> s[f[i]]] :
      f \in {g \in Perms(Len(s)) :
               \A i \in 1 .. Len(s) - 1 : Key(s[g[i]]) >= Key(s[g[i + 1]])} }

\* --------------------------------------------------------------- handlers
\* GET / with sort({ priority: 1 }) and sort({ createdAt: 1 }).
ListPersonalTasksAscending(s, u, sortBy) ==
  { Result(s, 200, "", MapSeq(found, ToJSON)) :
      found \in (IF sortBy = Some("priority") THEN SortAsc(FindByUser(s, u), PriorityKey)
                 ELSE IF sortBy = Some("dateAdded") THEN SortAsc(FindByUser(s, u), CreatedAtKey)
                 ELSE {FindByUser(s, u)}) }

\* GET /  (the second, identical registration of GET / is never dispatched):
\* the responses the handler may send.
ListPersonalTasksResults(s, u, sortBy) ==
  { Result(s, 200, "", MapSeq(found, ToJSON)) :
      found \in (IF sortBy = Some("priority") THEN SortDesc(FindByUser(s, u), PriorityKey)
                 ELSE IF sortBy = Some("dateAdded") THEN SortDesc(FindByUser(s, u), CreatedAtKey)
                 ELSE {FindByUser(s, u)}) }

\* POST / with a workspace that defaults to "personal" when the body has none.
CreateTaskDefaultPersonal(s, id, createdAt, u, body, workspace, team) ==
  IF workspace = Some("personal") \/ workspace = Undefined
    THEN SaveNew(s, NewTask(id, createdAt, body, u, Some("personal"), Undefined))
  ELSE IF workspace = Some("team")
    THEN IF team = Undefined
           THEN Result(s, 400, "Team ID is required for team workspace", <<>>)
           ELSE SaveNew(s, NewTask(id, createdAt, body, u, workspace, team))
  ELSE Result(s, 400, "Invalid workspace", <<>>)

\* POST /
CreateTaskResult(s, id, createdAt, u, body, workspace, team) ==
  IF workspace = Some("personal")
    THEN SaveNew(s, NewTask(id, createdAt, body, u, workspace, Undefined))
  ELSE IF workspace = Some("team")
    THEN IF team = Undefined
           THEN Result(s, 400, "Team ID is required for team workspace", <<>>)
           ELSE SaveNew(s, NewTask(id, createdAt, body, u, workspace, team))
  ELSE Result(s, 400, "Invalid workspace", <<>>)

\* The lookup and ownership check of PUT /:id and DELETE /:id: "404", "401"
\* or "ok".
OwnerCheck(s, u, id) ==
  LET task == FindById(s, id)
  IN  IF task = Undefined THEN "404"
      ELSE IF task[1].user # u THEN "401"
      ELSE "ok"

\* PUT /:id from task.save() on: `task` is the document in memory and
\* `delta` the update the save sends; a rejected save is caught and
\* answered 500.
UpdateTaskSave(s, task, delta) ==
  LET saved == Save(s, task.id, delta)
  IN  IF Validate(task) /\ saved.ok THEN Result(saved.tasks, 200, "", <<ToJSON(task)>>)
      ELSE Result(s, 500, "Server Error", <<>>)

\* PUT /:id, handled without another request in between.
UpdateTaskResult(s, u, id, body) ==
  LET check == OwnerCheck(s, u, id)
      loaded == FindById(s, id)[1]
      task == ObjectAssign(loaded, TaskData(body))
  IN  IF check = "404" THEN Result(s, 404, "Task not found", <<>>)
      ELSE IF check = "401" THEN Result(s, 401, "Not authorized", <<>>)
      ELSE UpdateTaskSave(s, task, Delta(loaded, task))

\* DELETE /:id from task.deleteOne() on.
DeleteTaskRemove(s, id) == Result(DeleteOne(s, id), 200, "Task removed", <<>>)

\* DELETE /:id, handled without another request in between.
DeleteTaskResult(s, u, id) ==
  LET check == OwnerCheck(s, u, id)
  IN  IF check = "404" THEN Result(s, 404, "Task not found", <<>>)
      ELSE IF check = "401" THEN Result(s, 401, "Not authorized", <<>>)
      ELSE DeleteTaskRemove(s, id)

\* The team lookup without the membership check.
MemberCheckTeamOnly(u, teamId) == IF TeamFindById(teamId) = Undefined THEN "404" ELSE "ok"

\* The team lookup and membership check shared by the two /:teamId routes:
\* "404", "401" or "ok".
MemberCheck(u, teamId) ==
  LET team == TeamFindById(teamId)
  IN  IF team = Undefined THEN "404"
      ELSE IF u \notin team[1].members THEN "401"
      ELSE "ok"

\* POST /:teamId
CreateTeamTaskResult(s, id, createdAt, u, teamId, body) ==
  LET check == MemberCheck(u, teamId)
      task == NewTask(id, createdAt, body, u, Undefined, Some(teamId))
  IN  IF check = "404" THEN Result(s, 404, "Team not found", <<>>)
      ELSE IF check = "401"
        THEN Result(s, 401, "Not authorized to create tasks within this team", <<>>)
      ELSE SaveNew(s, task)

\* GET /:teamId
ListTeamTasksResult(s, u, teamId) ==
  LET check == MemberCheck(u, teamId)
  IN  IF check = "404" THEN Result(s, 404, "Team not found", <<>>)
      ELSE IF check = "401"
        THEN Result(s, 401, "Not authorized to view tasks within this team", <<>>)
      ELSE Result(s, 200, "", MapSeq(FindByTeam(s, teamId), Populate))

\* PUT /:id/status with the ownership check of PUT /:id.
UpdateTaskStatusOwnerOnly(s, u, id, completed) ==
  IF OwnerCheck(s, u, id) = "404" THEN Result(s, 404, "Task not found", <<>>)
  ELSE IF OwnerCheck(s, u, id) = "401" THEN Result(s, 401, "Not authorized", <<>>)
  ELSE LET updated == FindByIdAndUpdate(s, id, completed)
       IN  Result(updated, 200, "", <<ToJSON(FindById(updated, id)[1])>>)

\* PUT /:id/status
UpdateTaskStatusResult(s, u, id, completed) ==
  IF FindById(s, id) = Undefined THEN Result(s, 404, "Task not found", <<>>)
  ELSE LET updated == FindByIdAndUpdate(s, id, completed)
       IN  Result(updated, 200, "", <<ToJSON(FindById(updated, id)[1])>>)

\* ---------------------------------------------------------------- actions
Options(S) == {Undefined} \cup {Some(v) : v \in S}

Init ==
  /\ tasks = <<>>
  /\ nextId = 1
  /\ now = 1
  /\ pending = {}

\* A handler that awaits nothing after its store operation: the whole request
\* is one step, which leaves the collection of its result.
Respond(r) ==
  /\ tasks' = r.tasks
  /\ UNCHANGED <<nextId, now, pending>>

\* A creating handler: when it saves, the store has handed out the id and the
\* clock has advanced.
RespondCreated(r) ==
  /\ tasks' = r.tasks
  /\ IF r.status = 200
       THEN nextId <= MaxTasks /\ nextId' = nextId + 1 /\ now' = now + 1
       ELSE UNCHANGED <<nextId, now>>
  /\ UNCHANGED pending

ListPersonalTasks(u, sortBy) ==
  \E r \in ListPersonalTasksResults(tasks, u, sortBy) : Respond(r)

CreateTask(u, body, workspace, team) ==
  RespondCreated(CreateTaskResult(tasks, nextId, now, u, body, workspace, team))

UpdateTask(u, id, body) == Respond(UpdateTaskResult(tasks, u, id, body))

DeleteTask(u, id) == Respond(DeleteTaskResult(tasks, u, id))

CreateTeamTask(u, teamId, body) ==
  RespondCreated(CreateTeamTaskResult(tasks, nextId, now, u, teamId, body))

ListTeamTasks(u, teamId) == Respond(ListTeamTasksResult(tasks, u, teamId))

UpdateTaskStatus(u, id, completed) ==
  Respond(UpdateTaskStatusResult(tasks, u, id, completed))

Next ==
  \/ \E u \in Users, sortBy \in Options(SortBys) : ListPersonalTasks(u, sortBy)
  \/ \E u \in Users, body \in CreateBodies, workspace \in Options(Workspaces),
        team \in Options(BodyTeamIds) : CreateTask(u, body, workspace, team)
  \/ \E u \in Users, id \in TaskIds, body \in UpdateBodies : UpdateTask(u, id, body)
  \/ \E u \in Users, id \in TaskIds : DeleteTask(u, id)
  \/ \E u \in Users, teamId \in TeamIds, body \in CreateBodies : CreateTeamTask(u, teamId, body)
  \/ \E u \in Users, teamId \in TeamIds : ListTeamTasks(u, teamId)
  \/ \E u \in Users, id \in TaskIds, completed \in BOOLEAN : UpdateTaskStatus(u, id, completed)

Spec == Init /\ [][Next]_vars

\* ------------------------------------------------- interleaved requests
\* PUT /:id and DELETE /:id await the store twice: findById, then the
\* updateOne of save() or deleteOne.  The handler runs from the reply to
\* findById to sending the second operation without yielding, so a request
\* in flight is the store operation it has sent; other requests may be
\* handled before the store executes it.

\* PUT /:id up to sending the update of task.save(); a save that fails
\* validation or modifies no path sends none and the request is over.
UpdateTaskBegin(u, id, body) ==
  LET loaded == FindById(tasks, id)[1]
      task == ObjectAssign(loaded, TaskData(body))
      delta == Delta(loaded, task)
  IN  IF OwnerCheck(tasks, u, id) # "ok" \/ ~Validate(task) \/ delta = NoWrites
        THEN Respond(UpdateTaskResult(tasks, u, id, body))
      ELSE /\ Cardinality(pending) < MaxPending
           /\ pending' = pending \cup {[op |-> "updateOne", id |-> id, delta |-> delta]}
           /\ UNCHANGED <<tasks, nextId, now>>

\* PUT /:id from the store's execution of the update on
UpdateTaskEnd(p) ==
  /\ p.op = "updateOne"
  /\ tasks' = Save(tasks, p.id, p.delta).tasks
  /\ pending' = pending \ {p}
  /\ UNCHANGED <<nextId, now>>

\* DELETE /:id up to sending deleteOne
DeleteTaskBegin(u, id) ==
  IF OwnerCheck(tasks, u, id) # "ok" THEN Respond(DeleteTaskResult(tasks, u, id))
  ELSE /\ Cardinality(pending) < MaxPending
       /\ pending' = pending \cup {[op |-> "deleteOne", id |-> id, delta |-> NoWrites]}
       /\ UNCHANGED <<tasks, nextId, now>>

\* DELETE /:id from the store's execution of deleteOne on
DeleteTaskEnd(p) ==
  /\ p.op = "deleteOne"
  /\ tasks' = DeleteTaskRemove(tasks, p.id).tasks
  /\ pending' = pending \ {p}
  /\ UNCHANGED <<nextId, now>>

\* The users who create tasks in the interleaved specification.
Creators == {"u1"}

\* The requests of the interleaved specification: every route; PUT /:id and
\* DELETE /:id either run through or are suspended at their second await.
NextConc ==
  \/ \E u \in Users, sortBy \in Options(SortBys) : ListPersonalTasks(u, sortBy)
  \/ \E u \in Creators, body \in CreateBodies :
       CreateTask(u, body, Some("personal"), Undefined)
  \/ \E u \in Users, teamId \in TeamIds, body \in CreateBodies : CreateTeamTask(u, teamId, body)
  \/ \E u \in Users, teamId \in TeamIds : ListTeamTasks(u, teamId)
  \/ \E u \in Users, id \in TaskIds, completed \in BOOLEAN : UpdateTaskStatus(u, id, completed)
  \/ \E u \in Users, id \in TaskIds : UpdateTask(u, id, RetitleBody)
  \/ \E u \in Users, id \in TaskIds : DeleteTask(u, id)
  \/ \E u \in Users, id \in TaskIds : UpdateTaskBegin(u, id, RetitleBody)
  \/ \E p \in pending : UpdateTaskEnd(p)
  \/ \E u \in Users, id \in TaskIds : DeleteTaskBegin(u, id)
  \/ \E p \in pending : DeleteTaskEnd(p)

SpecConc == Init /\ [][NextConc]_vars

\* ================================================================ claims
Doc(s, id) == FindById(s, id)[1]
BodyIds(body) == {body[i].id : i \in 1 .. Len(body)}
\* Ids the store has handed out and that name no stored task: deleted tasks.
Deleted == {id \in 1 .. nextId - 1 : id \notin Ids(tasks)}

\* C1: for every stored task t, PUT /:id and DELETE /:id by a user other than
\* t.user respond 401 and leave the collection as it is; by t.user they
\* respond 200, the update stores every supplied field and the delete
\* removes t.
C1_OwnerOnlyWrites ==
  \A id \in Ids(tasks), u \in Users, body \in UpdateBodies :
    LET t == Doc(tasks, id)
        up == UpdateTaskResult(tasks, u, id, body)
        del == DeleteTaskResult(tasks, u, id)
        after == FindById(up.tasks, id)
    IN  IF u # t.user
          THEN /\ up.status = 401 /\ up.tasks = tasks
               /\ del.status = 401 /\ del.tasks = tasks
          ELSE /\ up.status = 200
               /\ after # Undefined
               /\ \A k \in UpdateKeys : body[k] # Undefined => after[1][k] = body[k]
               /\ del.status = 200
               /\ del.tasks = SelectSeq(tasks, LAMBDA d : d.id # id)

\* C2: every stored task with a team association (workspace "team" or a team
\* set) names an existing team that its creating user is a member of.
C2_TeamTasksOfMembers ==
  \A i \in 1 .. Len(tasks) :
    (tasks[i].workspace = Some("team") \/ tasks[i].team # Undefined) =>
      /\ tasks[i].team # Undefined
      /\ TeamFindById(tasks[i].team[1]) # Undefined
      /\ tasks[i].user \in TeamFindById(tasks[i].team[1])[1].members

\* C3: POST /:teamId and GET /:teamId respond 404 when teamId names no team,
\* else 401 when the user is not a member, creating and returning nothing;
\* a member gets 200, and the list is exactly the stored tasks of that team.
C3_TeamScoped ==
  \A u \in Users, teamId \in TeamIds, body \in CreateBodies :
    LET c == CreateTeamTaskResult(tasks, nextId, now, u, teamId, body)
        l == ListTeamTasksResult(tasks, u, teamId)
        ofTeam == {i \in 1 .. Len(tasks) : tasks[i].team = Some(teamId)}
    IN  IF teamId \notin DOMAIN teams
          THEN /\ c.status = 404 /\ c.tasks = tasks
               /\ l.status = 404 /\ l.body = <<>>
        ELSE IF u \notin teams[teamId].members
          THEN /\ c.status = 401 /\ c.tasks = tasks
               /\ l.status = 401 /\ l.body = <<>>
        ELSE /\ c.status = 200
             /\ c.tasks = Append(tasks, c.tasks[Len(c.tasks)])
             /\ l.status = 200
             /\ Len(l.body) = Cardinality(ofTeam)
             /\ BodyIds(l.body) = {tasks[i].id : i \in ofTeam}
             /\ \A j \in 1 .. Len(l.body) :
                  /\ l.body[j].team = Some(teamId)
                  /\ l.body[j].user.username = Some(users[Doc(tasks, l.body[j].id).user].username)

\* Tasks of team T1 and a task of no team are stored, one of them created by
\* POST /:teamId, and a non-member's GET /:teamId is refused.
C3_Witness ==
  /\ \E i \in 1 .. Len(tasks) : tasks[i].team = Some("T1") /\ tasks[i].workspace = Undefined
  /\ \E i \in 1 .. Len(tasks) : tasks[i].team = Undefined
  /\ ListTeamTasksResult(tasks, "u2", "T1").status = 401
  /\ Len(ListTeamTasksResult(tasks, "u1", "T1").body) = 1

\* C4: GET / for user u returns every stored task that u created with
\* workspace "personal" and no task of another user.
C4_PersonalListing ==
  \A u \in Users, sortBy \in Options(SortBys) :
    \A r \in ListPersonalTasksResults(tasks, u, sortBy) :
      /\ r.status = 200
      /\ \A i \in 1 .. Len(tasks) :
           (tasks[i].user = u /\ tasks[i].workspace = Some("personal")) =>
             tasks[i].id \in BodyIds(r.body)
      /\ \A j \in 1 .. Len(r.body) :
           /\ r.body[j].user.id = u
           /\ r.body[j].id \in Ids(tasks)

\* Personal tasks of two users are stored, one of them updated since.
C4_Witness ==
  /\ \E i \in 1 .. Len(tasks) : tasks[i].title = Some("b")
  /\ \E i, j \in 1 .. Len(tasks) :
       /\ tasks[i].user # tasks[j].user
       /\ tasks[i].workspace = Some("personal")
       /\ tasks[j].workspace = Some("personal")

\* C5: PUT /:id/status on a stored task responds 200 and stores the supplied
\* completed value whoever the caller is; it responds 404 exactly when no
\* task has the id.
C5_StatusByAnyone ==
  \A u \in Users, id \in TaskIds, completed \in BOOLEAN :
    LET r == UpdateTaskStatusResult(tasks, u, id, completed)
    IN  IF id \in Ids(tasks)
          THEN /\ r.status = 200
               /\ Doc(r.tasks, id).completed = Some(completed)
          ELSE r.status = 404 /\ r.tasks = tasks

\* A personal task whose completed flag the status route has set, and a user
\* who neither owns it nor is in a team of it.
C5_Witness ==
  \E i \in 1 .. Len(tasks), u \in Users :
    /\ tasks[i].completed = Some(TRUE)
    /\ tasks[i].title = Some("a")
    /\ tasks[i].team = Undefined
    /\ u # tasks[i].user
    /\ UpdateTaskStatusResult(tasks, u, tasks[i].id, FALSE).status = 200

\* C6: PUT /:id by the owner is a partial update: a field whose key is absent
\* from the body keeps its stored value, a field whose key is present takes
\* the supplied value.
C6_PartialUpdate ==
  \A id \in Ids(tasks), body \in UpdateBodies :
    LET before == Doc(tasks, id)
        r == UpdateTaskResult(tasks, before.user, id, body)
        after == FindById(r.tasks, id)
    IN  /\ after # Undefined
        /\ \A k \in UpdateKeys :
             after[1][k] = IF body[k] = Undefined THEN before[k] ELSE body[k]

\* C7: POST / with workspace "team" and no team responds 400 "Team ID is
\* required ...", with a workspace other than "personal" and "team" 400
\* "Invalid workspace", both leaving the collection as it is; otherwise it
\* adds exactly one task, whose user is the acting user.
C7_CreateValidation ==
  \A u \in Users, body \in CreateBodies, workspace \in Options(Workspaces),
     team \in Options(BodyTeamIds) :
    LET r == CreateTaskResult(tasks, nextId, now, u, body, workspace, team)
    IN  IF workspace = Some("team") /\ team = Undefined
          THEN /\ r.status = 400
               /\ r.msg = "Team ID is required for team workspace"
               /\ r.tasks = tasks
        ELSE IF workspace \notin {Some("personal"), Some("team")}
          THEN r.status = 400 /\ r.msg = "Invalid workspace" /\ r.tasks = tasks
        ELSE /\ r.status = 200
             /\ Len(r.tasks) = Len(tasks) + 1
             /\ SubSeq(r.tasks, 1, Len(tasks)) = tasks
             /\ r.tasks[Len(r.tasks)].user = u
             /\ r.tasks[Len(r.tasks)].id \notin Ids(tasks)

\* POST / has stored a personal task and a team task.
C7_Witness ==
  /\ \E i \in 1 .. Len(tasks) : tasks[i].workspace = Some("personal")
  /\ \E i \in 1 .. Len(tasks) : tasks[i].workspace = Some("team")

\* C8: GET / returns the acting user's tasks, each once, in every mode:
\* sortBy "priority" in non-increasing priority order, "dateAdded" in
\* non-increasing createdAt order, absent or anything else in insertion order.
C8_Sorting ==
  \A u \in Users, sortBy \in Options(SortBys) :
    \A r \in ListPersonalTasksResults(tasks, u, sortBy) :
      LET mine == FindByUser(tasks, u)
          n == Len(r.body)
      IN  /\ n = Len(mine)
          /\ BodyIds(r.body) = Ids(mine)
          /\ \A j \in 1 .. n : r.body[j] = ToJSON(Doc(tasks, r.body[j].id))
          /\ sortBy = Some("priority") =>
               \A j \in 1 .. n - 1 : PriorityKey(r.body[j]) >= PriorityKey(r.body[j + 1])
          /\ sortBy = Some("dateAdded") =>
               \A j \in 1 .. n - 1 : r.body[j].createdAt >= r.body[j + 1].createdAt
          /\ sortBy \notin {Some("priority"), Some("dateAdded")} =>
               \A j \in 1 .. n : r.body[j].id = mine[j].id

\* A user has two tasks, stored in ascending order of priority and of
\* createdAt.
C8_Witness ==
  \E i, j \in 1 .. Len(tasks) :
    /\ i < j
    /\ tasks[i].user = tasks[j].user
    /\ PriorityKey(tasks[i]) < PriorityKey(tasks[j])
    /\ tasks[i].createdAt < tasks[j].createdAt

Immutable(d, e) ==
  /\ d.id = e.id /\ d.createdAt = e.createdAt /\ d.user = e.user
  /\ d.team = e.team /\ d.workspace = e.workspace

\* C9: a step changes neither id, createdAt, user, team nor workspace of a
\* task that stays stored; PUT /:id changes only title, description, dueDate,
\* priority and completed of the task it names, PUT /:id/status only its
\* completed, and neither changes another task.
C9_Frame ==
  /\ [][tasks' = tasks \/
        \A i \in 1 .. Len(tasks), j \in 1 .. Len(tasks') :
          tasks[i].id = tasks'[j].id => Immutable(tasks[i], tasks'[j])]_vars
  /\ [](\A u \in Users, id \in TaskIds :
          /\ \A body \in UpdateBodies :
               LET r == UpdateTaskResult(tasks, u, id, body)
               IN  /\ Len(r.tasks) = Len(tasks)
                   /\ \A i \in 1 .. Len(tasks) :
                        IF tasks[i].id = id THEN Immutable(tasks[i], r.tasks[i])
                        ELSE r.tasks[i] = tasks[i]
          /\ \A completed \in BOOLEAN :
               LET r == UpdateTaskStatusResult(tasks, u, id, completed)
               IN  /\ Len(r.tasks) = Len(tasks)
                   /\ \A i \in 1 .. Len(tasks) :
                        IF tasks[i].id = id
                          THEN r.tasks[i] = [tasks[i] EXCEPT !.completed = r.tasks[i].completed]
                        ELSE r.tasks[i] = tasks[i])

\* Two tasks are stored, one updated by PUT /:id and completed by
\* PUT /:id/status, the other as created.
C9_Witness ==
  \E i, j \in 1 .. Len(tasks) :
    /\ tasks[i].title = Some("b") /\ tasks[i].completed = Some(TRUE)
    /\ tasks[j].title = Some("a") /\ tasks[j].completed = Some(FALSE)

\* C10: a deleted task stays deleted whatever requests interleave: no step
\* stores it again, no listing returns it, and PUT /:id, DELETE /:id and
\* PUT /:id/status of its id respond 404 "Task not found".
C10_DeletedForGood ==
  /\ [][tasks' = tasks \/ \A id \in Deleted : id \notin Ids(tasks')]_vars
  /\ [](\A id \in Deleted, u \in Users :
          /\ \A sortBy \in Options(SortBys) :
               \A r \in ListPersonalTasksResults(tasks, u, sortBy) : id \notin BodyIds(r.body)
          /\ \A teamId \in TeamIds : id \notin BodyIds(ListTeamTasksResult(tasks, u, teamId).body)
          /\ \A body \in UpdateBodies :
               LET r == UpdateTaskResult(tasks, u, id, body)
               IN  r.status = 404 /\ r.msg = "Task not found" /\ r.tasks = tasks
          /\ LET r == DeleteTaskResult(tasks, u, id)
             IN  r.status = 404 /\ r.msg = "Task not found" /\ r.tasks = tasks
          /\ \A completed \in BOOLEAN :
               LET r == UpdateTaskStatusResult(tasks, u, id, completed)
               IN  r.status = 404 /\ r.msg = "Task not found" /\ r.tasks = tasks)

\* A PUT /:id is suspended before its save and the task it loaded has been
\* deleted meanwhile.
C10_Witness ==
  \E p \in pending : p.op = "updateOne" /\ p.id \in Deleted

====
